---------------------------- MODULE Spec2Model ----------------------------
(***************************************************************************)
(* Model of dolphin/ps.py: create_ps (block-streamed amplitude dispersion  *)
(* and persistent-scatterer mask) and update_amp_disp (Welford update of   *)
(* the mean / dispersion summary rasters), and of take_looks of            *)
(* dolphin/utils.py (multilooking of an array).                            *)
(*                                                                         *)
(* Numbers.  Raster values are IEEE floats in the program.  They are       *)
(* modelled exactly: a value is NaN, +/-infinity, or the real number       *)
(* sgn * (n/d)^(1/r) with r = 1 (a rational) or r = 2 (the square root of  *)
(* a non-square rational, which is what np.nanstd and np.sqrt produce).    *)
(* Rounding is not modelled.                                               *)
(***************************************************************************)
EXTENDS Integers, Sequences, FiniteSets, TLC

(***************************************************************************)
(* Bounds of the model.                                                    *)
(***************************************************************************)
\* Image height of the stack given to create_ps.
ImgRows == 3
\* Number of bands (T) of the stack given to create_ps.
PsBands == 2
\* Image height and number of bands of the stack given to update_amp_disp.
UpdRows == 1
UpdBands == 3
\* Number of calls of update_amp_disp followed.
MaxCalls == 2
\* Largest number of rows and of columns of an array given to take_looks,
\* largest number of 2D arrays in a 3D one, and largest row_looks / col_looks.
LooksMaxDim == 2
LooksMaxPlanes == 1
MaxLooks == 2

(***************************************************************************)
(* Exact arithmetic on float values.                                       *)
(***************************************************************************)
AbsInt(i) == IF i < 0 THEN -i ELSE i

RECURSIVE GCD(_, _)
GCD(a, b) == IF b = 0 THEN a ELSE GCD(b, a % b)

\* The integer square root of a perfect square m >= 0, and whether m is one.
IsSquare(m) == \E s \in 0..m : s * s = m
ISqrt(m) == CHOOSE s \in 0..m : s * s = m

NaN == [k |-> "nan", n |-> 0, d |-> 1, r |-> 1]
PosInf == [k |-> "inf", n |-> 1, d |-> 1, r |-> 1]
NegInf == [k |-> "inf", n |-> -1, d |-> 1, r |-> 1]

\* The rational num/den (den # 0) in lowest terms with a positive denominator.
Rat(num, den) ==
    LET g == GCD(AbsInt(num), AbsInt(den))
        s == IF den < 0 THEN -1 ELSE 1
    IN [k |-> "fin", n |-> (s * num) \div g, d |-> (s * den) \div g, r |-> 1]

Zero == Rat(0, 1)
IsNaN(a) == a.k = "nan"
IsInf(a) == a.k = "inf"
IsFin(a) == a.k = "fin"
IsZero(a) == a.k = "fin" /\ a.n = 0
Sgn(a) == IF a.n > 0 THEN 1 ELSE IF a.n < 0 THEN -1 ELSE 0

\* a ** 2
Square(a) ==
    CASE IsNaN(a) -> NaN
      [] IsInf(a) -> PosInf
      [] OTHER -> IF a.r = 2 THEN Rat(a.n, a.d) ELSE Rat(a.n * a.n, a.d * a.d)

\* np.sqrt: NaN for a negative argument.
Sqrt(a) ==
    CASE IsNaN(a) -> NaN
      [] IsInf(a) -> IF a.n > 0 THEN PosInf ELSE NaN
      [] a.n < 0 -> NaN
      [] IsSquare(a.n) /\ IsSquare(a.d) -> Rat(ISqrt(a.n), ISqrt(a.d))
      [] OTHER -> [k |-> "fin", n |-> a.n, d |-> a.d, r |-> 2]

\* np.abs
FAbs(a) ==
    CASE IsNaN(a) -> NaN
      [] IsInf(a) -> PosInf
      [] OTHER -> [a EXCEPT !.n = AbsInt(a.n)]

\* a + b and a - b (operands are rationals, NaN or infinities).
FAdd(a, b) ==
    CASE IsNaN(a) \/ IsNaN(b) -> NaN
      [] IsInf(a) /\ IsInf(b) -> IF a.n = b.n THEN a ELSE NaN
      [] IsInf(a) -> a
      [] IsInf(b) -> b
      [] OTHER -> Rat(a.n * b.d + b.n * a.d, a.d * b.d)

FNeg(a) == IF IsNaN(a) THEN NaN ELSE [a EXCEPT !.n = -a.n]

FSub(a, b) == FAdd(a, FNeg(b))

\* a * b
FMul(a, b) ==
    CASE IsNaN(a) \/ IsNaN(b) -> NaN
      [] IsInf(a) \/ IsInf(b) ->
            IF Sgn(a) * Sgn(b) = 0 THEN NaN
            ELSE IF Sgn(a) * Sgn(b) > 0 THEN PosInf ELSE NegInf
      [] a.r = 1 /\ b.r = 1 -> Rat(a.n * b.n, a.d * b.d)
      [] OTHER ->
            LET sa == Square(a)
                sb == Square(b)
                m == Sqrt(Rat(sa.n * sb.n, sa.d * sb.d))
            IN IF Sgn(a) * Sgn(b) < 0 THEN FNeg(m) ELSE m

\* a / b with IEEE results for a zero divisor: x/0 = +/-inf, 0/0 = NaN.
FDiv(a, b) ==
    CASE IsNaN(a) \/ IsNaN(b) -> NaN
      [] IsInf(a) /\ IsInf(b) -> NaN
      [] IsInf(a) -> IF Sgn(a) * Sgn(b) < 0 THEN NegInf ELSE PosInf
      [] IsInf(b) -> Zero
      [] IsZero(b) -> IF IsZero(a) THEN NaN
                      ELSE IF a.n > 0 THEN PosInf ELSE NegInf
      [] a.r = 1 /\ b.r = 1 -> Rat(a.n * b.d, a.d * b.n)
      [] OTHER ->
            LET sa == Square(a)
                sb == Square(b)
                m == Sqrt(Rat(sa.n * sb.d, sa.d * sb.n))
            IN IF Sgn(a) * Sgn(b) < 0 THEN FNeg(m) ELSE m

\* a < b; FALSE when either is NaN.
FLt(a, b) ==
    CASE IsNaN(a) \/ IsNaN(b) -> FALSE
      [] IsInf(a) -> a.n < 0 /\ ~(IsInf(b) /\ b.n < 0)
      [] IsInf(b) -> b.n > 0
      [] Sgn(a) < 0 /\ Sgn(b) >= 0 -> TRUE
      [] Sgn(a) >= 0 /\ Sgn(b) <= 0 -> FALSE
      [] OTHER ->
            LET sa == Square(a)
                sb == Square(b)
                lt == sa.n * sb.d < sb.n * sa.d
                gt == sa.n * sb.d > sb.n * sa.d
            IN IF Sgn(a) > 0 THEN lt ELSE gt

\* np.nan_to_num(a, nan=0, posinf=0, neginf=0)
NanToNum0(a) == IF IsNaN(a) \/ IsInf(a) THEN Zero ELSE a

\* np.nan_to_num(a): only NaN matters for magnitudes of finite samples.
NanToNum(a) == IF IsNaN(a) THEN Zero ELSE a

(***************************************************************************)
(* Inputs.                                                                 *)
(***************************************************************************)
\* Sample values of one SLC pixel at one date (NaN, zero, or a nonzero value
\* whose magnitude np.abs takes).
Samples == {NaN, Rat(0, 1), Rat(-1, 1), Rat(3, 1)}

\* Sample values of the stack given to update_amp_disp.
UpdSamples == {Rat(0, 1), Rat(-1, 1), Rat(3, 1)}

\* amp_dispersion_threshold=0.42, the default of create_ps.
DefaultThreshold == Rat(21, 50)
Thresholds == {Rat(0, 1), DefaultThreshold, Rat(1, 1), Rat(2, 1)}

\* Bytes of one float32 element.
ElemBytes == 4

\* max_bytes values: room for 1, 2, ... ImgRows full-width rows of the stack.
MaxBytesSet == {k * PsBands * ElemBytes : k \in 1..ImgRows}

\* The pixels <<row, col>> of an image.  Tiles are full-width and every
\* statistic is per pixel, so the images of the model have one column.
Pix(rows) == (1..rows) \X {1}

\* Every stack of `bands` bands over an image of `rows` rows, with samples
\* drawn from `samples`.
Stacks(rows, bands, samples) ==
    {[rows |-> rows, cols |-> Cardinality({p[2] : p \in Pix(rows)}),
      bands |-> bands, px |-> f] :
        f \in [Pix(rows) -> [1..bands -> samples]]}

\* Paths are <<directory, file name>>.
StackPath == <<"work", "slc_stack.vrt">>
CallerMaskPath == <<"work", "ps_pixels.tif">>
CallerDispPath == <<"work", "amp_dispersion.tif">>
CallerMeanPath == <<"work", "amp_mean.tif">>

VARIABLES
    stack,      \* contents of the SLC stack (slc_vrt_file), read-only input
    fs,         \* the single-band rasters on disk: path -> [px, md]
    dirs,       \* the directories that exist
    ps_pc,      \* create_ps: "idle", "loop", "returned", "raised"
    ps,         \* create_ps: its arguments and locals
    upd_pc,     \* update_amp_disp: where the current call is
    upd,        \* update_amp_disp: its arguments and locals
    calls,      \* number of update_amp_disp calls started
    tl          \* take_looks: its arguments and its outcome

vars == <<stack, fs, dirs, ps_pc, ps, upd_pc, upd, calls, tl>>

Exists(path) == path \in DOMAIN fs

\* fs with `raster` stored at `path`.
Stored(files, path, raster) ==
    [q \in DOMAIN files \cup {path} |-> IF q = path THEN raster ELSE files[q]]

NoFiles == [q \in {} |-> 0]

(***************************************************************************)
(* Collaborators of create_ps: dolphin.io and dolphin.vrt.VRTStack.        *)
(***************************************************************************)
Min(a, b) == IF a < b THEN a ELSE b
Max(a, b) == IF a > b THEN a ELSE b

\* save_arr(arr=None, like_filename=..., nbands=1): a new zero-filled raster
\* with the footprint of the stack and no metadata item N.
save_arr(files, like, output_name, fill) ==
    Stored(files, output_name,
           [px |-> [p \in Pix(like.rows) |-> fill], md |-> {}])

\* VRTStack._get_block_shape: full-width tiles of as many rows as fit
\* bands * tile_rows * tile_cols * 4 bytes into max_bytes, at least one row.
get_block_shape(st, max_bytes) ==
    <<Max(1, Min(st.rows, max_bytes \div (st.bands * st.cols * ElemBytes))),
      st.cols>>

\* VRTStack._get_num_blocks: the ceiling of image rows / tile rows.
get_num_blocks(st, max_bytes) ==
    LET tr == get_block_shape(st, max_bytes)[1]
    IN (st.rows + tr - 1) \div tr

\* The rows of the b-th tile VRTStack.iter_blocks yields; the last tile may
\* hold fewer rows than the block shape.
BlockRows(st, block_shape, b) ==
    ((b - 1) * block_shape[1] + 1)..Min(b * block_shape[1], st.rows)

\* save_block(arr, filename, rows, cols): writes the whole array at the
\* offset (rows.start, cols.start); an array that reaches past the raster's
\* last row is refused by the raster library.
SaveBlockFits(raster_rows, first_row, arr_rows) ==
    first_row + arr_rows - 1 <= raster_rows

save_block(files, arr, arr_rows, filename, first_row) ==
    LET old == files[filename]
        new_px == [p \in DOMAIN old.px |->
                      IF p[1] >= first_row /\ p[1] < first_row + arr_rows
                      THEN arr[<<p[1] - first_row + 1, p[2]>>]
                      ELSE old.px[p]]
    IN Stored(files, filename, [old EXCEPT !.px = new_px])

(***************************************************************************)
(* create_ps: the per-pixel statistics of one tile.                        *)
(***************************************************************************)
\* The value ps[amp_disp == 0] = 255 is meant to store.
SentinelByte == 255

\* Mutant of Magnitude: the NaNs are left in place, so that np.nanmean and
\* np.nanstd leave those dates out.
Magnitude_KeepNaN(series) == [t \in DOMAIN series |-> FAbs(series[t])]

\* np.abs(cur_data, out=magnitude); np.nan_to_num(magnitude, copy=False)
Magnitude(series) == [t \in DOMAIN series |-> NanToNum(FAbs(series[t]))]

RECURSIVE SumValid(_, _)
SumValid(xs, t) ==
    IF t = 0 THEN Zero
    ELSE FAdd(SumValid(xs, t - 1), IF IsNaN(xs[t]) THEN Zero ELSE xs[t])

CountValid(xs) == Cardinality({t \in DOMAIN xs : ~IsNaN(xs[t])})

\* np.nanmean(xs, axis=0): the mean of the entries that are not NaN.
NanMean(xs) ==
    IF CountValid(xs) = 0 THEN NaN
    ELSE FDiv(SumValid(xs, Len(xs)), Rat(CountValid(xs), 1))

\* np.nanstd(xs, axis=0): the population standard deviation (ddof = 0).
NanStd(xs) ==
    LET m == NanMean(xs)
        sq == [t \in DOMAIN xs |-> Square(FSub(xs[t], m))]
    IN Sqrt(NanMean(sq))

\* amp_disp = mean / std_dev; np.nan_to_num(amp_disp, nan=0, posinf=0, neginf=0)
AmpDisp(mean, std_dev) == NanToNum0(FDiv(mean, std_dev))

\* Storing the integer v into an array of dtype bool.
BoolOf(v) == v # 0

\* Mutant of PsFlag: the comparison is <= instead of <.
PsFlag_Le(amp_disp, threshold) ==
    IF IsZero(amp_disp) THEN BoolOf(SentinelByte)
    ELSE FLt(amp_disp, threshold) \/ amp_disp = threshold

\* ps = amp_disp < threshold is an array of dtype bool;
\* ps[amp_disp == 0] = 255 stores 255 into that bool array.
PsFlag(amp_disp, threshold) ==
    IF IsZero(amp_disp) THEN BoolOf(SentinelByte) ELSE FLt(amp_disp, threshold)

\* The byte save_block writes into the uint8 raster for a bool.
ByteOfBool(b) == IF b THEN 1 ELSE 0

\* A smaller array broadcasts into out=magnitude only along an axis of size 1.
Broadcastable(cur_shape, block_shape) ==
    /\ cur_shape[2] = block_shape[2]
    /\ cur_shape[1] = block_shape[1] \/ cur_shape[1] = 1

(***************************************************************************)
(* create_ps                                                               *)
(***************************************************************************)
NoPath == <<"", "">>

PsIdle ==
    [output_file |-> NoPath, amp_mean_file |-> NoPath,
     amp_dispersion_file |-> NoPath, threshold |-> Zero, max_bytes |-> 0,
     block_shape |-> <<0, 0>>, num_blocks |-> 0, blk |-> 0,
     tiles |-> <<>>, err |-> "none"]

\* The call and everything before the loop: the three output rasters are
\* created zero-filled, the block shape and the number of blocks are read.
\* The parameters are in the order of the signature.  The result is the
\* files, the locals and where the function is.
create_ps_begin(st, files, output_file, amp_mean_file, amp_dispersion_file, threshold, max_bytes) ==
    [fs |-> save_arr(save_arr(save_arr(files, st, output_file, 0),
                              st, amp_dispersion_file, Zero),
                     st, amp_mean_file, Zero),
     ps |-> [PsIdle EXCEPT
               !.output_file = output_file,
               !.amp_mean_file = amp_mean_file,
               !.amp_dispersion_file = amp_dispersion_file,
               !.threshold = threshold,
               !.max_bytes = max_bytes,
               !.block_shape = get_block_shape(st, max_bytes),
               !.num_blocks = get_num_blocks(st, max_bytes),
               !.blk = 1],
     pc |-> "loop"]

\* The tile's time series at <<i, c>> of `magnitude`, which has the block
\* shape: a one-row tile is broadcast into every row of it.
TileSeries(st, cur_rows, block_shape, i, c) ==
    LET first == CHOOSE r \in cur_rows : \A q \in cur_rows : r <= q
        src_row == IF Cardinality(cur_rows) = block_shape[1]
                   THEN first + i - 1 ELSE first
    IN Magnitude(st.px[<<src_row, c>>])

TileIdx(block_shape) == (1..block_shape[1]) \X (1..block_shape[2])

\* mean = np.nanmean(magnitude, axis=0)
PixelMean(mag) == NanMean(mag)

\* std_dev = np.nanstd(magnitude, axis=0); amp_disp = mean / std_dev, cleaned
PixelAmpDisp(mag) == AmpDisp(NanMean(mag), NanStd(mag))

\* ps as save_block stores it
PixelPs(mag, threshold) == ByteOfBool(PsFlag(PixelAmpDisp(mag), threshold))

\* One iteration of the loop over the tiles.
create_ps_iteration(st, files, loc) ==
    LET b == loc.blk
        cur_rows == BlockRows(st, loc.block_shape, b)
        cur_shape == <<Cardinality(cur_rows), st.cols>>
        first == (b - 1) * loc.block_shape[1] + 1
        cells == (cur_rows \X (1..st.cols)) \X (1..st.bands)
        all_zero == \A x \in cells : st.px[x[1]][x[2]] = Zero
        all_nan == \A x \in cells : IsNaN(st.px[x[1]][x[2]])
        after == IF b = loc.num_blocks THEN "returned" ELSE "loop"
        idx == TileIdx(loc.block_shape)
        mean == [x \in idx |->
                   PixelMean(TileSeries(st, cur_rows, loc.block_shape, x[1], x[2]))]
        amp_disp == [x \in idx |->
                   PixelAmpDisp(TileSeries(st, cur_rows, loc.block_shape, x[1], x[2]))]
        psb == [x \in idx |->
                   PixelPs(TileSeries(st, cur_rows, loc.block_shape, x[1], x[2]),
                           loc.threshold)]
        arr_rows == loc.block_shape[1]
    IN IF all_zero \/ all_nan
       THEN \* continue
            [fs |-> files,
             ps |-> [loc EXCEPT !.blk = b + 1, !.tiles = Append(@, "skipped")],
             pc |-> after]
       ELSE IF ~Broadcastable(cur_shape, loc.block_shape)
       THEN \* np.abs(cur_data, out=magnitude) raises
            [fs |-> files,
             ps |-> [loc EXCEPT !.tiles = Append(@, "failed"),
                                !.err = "ValueError"],
             pc |-> "raised"]
       ELSE IF ~SaveBlockFits(st.rows, first, arr_rows)
       THEN \* the first save_block raises
            [fs |-> files,
             ps |-> [loc EXCEPT !.tiles = Append(@, "failed"),
                                !.err = "RuntimeError"],
             pc |-> "raised"]
       ELSE [fs |-> save_block(
                      save_block(
                        save_block(files, mean, arr_rows, loc.amp_mean_file, first),
                        amp_disp, arr_rows, loc.amp_dispersion_file, first),
                      psb, arr_rows, loc.output_file, first),
             ps |-> [loc EXCEPT !.blk = b + 1, !.tiles = Append(@, "written")],
             pc |-> after]

create_ps(output_file, amp_mean_file, amp_dispersion_file, threshold, max_bytes) ==
    /\ ps_pc = "idle"
    /\ \E r \in {create_ps_begin(stack, fs, output_file, amp_mean_file,
                                 amp_dispersion_file, threshold, max_bytes)} :
          /\ fs' = r.fs
          /\ ps' = r.ps
          /\ ps_pc' = r.pc
    /\ UNCHANGED <<stack, dirs, upd_pc, upd, calls, tl>>

create_ps_block ==
    /\ ps_pc = "loop"
    /\ \E r \in {create_ps_iteration(stack, fs, ps)} :
          /\ fs' = r.fs
          /\ ps' = r.ps
          /\ ps_pc' = r.pc
    /\ UNCHANGED <<stack, dirs, upd_pc, upd, calls, tl>>

\* A whole run of create_ps on the stack st, from no files.
RECURSIVE create_ps_loop(_, _)
create_ps_loop(st, r) ==
    IF r.pc = "loop" THEN create_ps_loop(st, create_ps_iteration(st, r.fs, r.ps))
    ELSE r

create_ps_run(st, threshold, max_bytes) ==
    create_ps_loop(st, create_ps_begin(st, NoFiles, CallerMaskPath, CallerDispPath,
                                       CallerMeanPath, threshold, max_bytes))

(***************************************************************************)
(* update_amp_disp                                                         *)
(***************************************************************************)
\* The existing summary rasters and the directories a caller may name.
AmpMeanFile == <<"summary", "amp_mean.tif">>
AmpDispFile == <<"summary", "amp_dispersion.tif">>
OutputDirs == {"summary", "updated"}

NoArray == [q \in {} |-> 0]

UpdIdle ==
    [amp_mean_file |-> NoPath, amp_dispersion_file |-> NoPath,
     output_directory |-> "", output_mean_file |-> NoPath,
     output_disp_file |-> NoPath, opened |-> FALSE, N |-> 0,
     mean_n |-> NoArray, ampdisp |-> NoArray, new_amp |-> NoArray,
     err |-> "none",
     \* history: the files as they were when the call was made
     entry_fs |-> NoFiles]

\* ds.GetMetadataItem(key): the values stored under key (none: Python's None).
GetMetadataItem(raster, key) == {p[2] : p \in {q \in raster.md : q[1] = key}}

\* ds.SetMetadataItem(key, value)
SetMetadataItem(raster, key, value) ==
    [raster EXCEPT !.md = {q \in @ : q[1] # key} \cup {<<key, value>>}]

\* var_n = ampdisp**2 * mean_n**2
VarN(ampdisp, mean_n) == FMul(Square(ampdisp), Square(mean_n))

\* mean_n1 = mean_n + (new_amp - mean_n) / (N + 1)
MeanN1(mean_n, new_amp, N) ==
    FAdd(mean_n, FDiv(FSub(new_amp, mean_n), Rat(N + 1, 1)))

\* Mutant of VarN1: the correction is divided by N instead of N + 1.
VarN1_DivN(var_n, mean_n, mean_n1, new_amp, N) ==
    FAdd(var_n,
         FDiv(FSub(FMul(FSub(new_amp, mean_n), FSub(new_amp, mean_n1)), var_n),
              Rat(N, 1)))

\* var_n1 = var_n + ((new_amp - mean_n) * (new_amp - mean_n1) - var_n) / (N + 1)
VarN1(var_n, mean_n, mean_n1, new_amp, N) ==
    FAdd(var_n,
         FDiv(FSub(FMul(FSub(new_amp, mean_n), FSub(new_amp, mean_n1)), var_n),
              Rat(N + 1, 1)))

\* np.sqrt(var_n1 / mean_n1**2)
DispN1(var_n1, mean_n1) == Sqrt(FDiv(var_n1, Square(mean_n1)))

\* The call: the output directory is made if missing, the output paths are
\* output_directory / the input files' names.
update_amp_disp(amp_mean_file, amp_dispersion_file, output_directory) ==
    /\ upd_pc \in {"idle", "returned", "raised"}
    /\ calls < MaxCalls
    /\ calls' = calls + 1
    /\ dirs' = dirs \cup {output_directory}
    /\ upd' = [UpdIdle EXCEPT
                 !.amp_mean_file = amp_mean_file,
                 !.amp_dispersion_file = amp_dispersion_file,
                 !.output_directory = output_directory,
                 !.output_mean_file = <<output_directory, amp_mean_file[2]>>,
                 !.output_disp_file = <<output_directory, amp_dispersion_file[2]>>,
                 !.entry_fs = fs]
    /\ upd_pc' = "check"
    /\ UNCHANGED <<stack, fs, ps_pc, ps, tl>>

\* Mutant of check_output_files: existing outputs are not looked for.
check_output_files_Skip ==
    /\ upd_pc = "check"
    /\ upd' = upd
    /\ upd_pc' = "open"
    /\ UNCHANGED <<stack, fs, dirs, ps_pc, ps, calls, tl>>

\* _check_output_files(output_mean_file, output_disp_file)
check_output_files ==
    /\ upd_pc = "check"
    /\ IF Exists(upd.output_mean_file) \/ Exists(upd.output_disp_file)
       THEN /\ upd' = [upd EXCEPT !.err = "FileExistsError"]
            /\ upd_pc' = "raised"
       ELSE /\ upd' = upd
            /\ upd_pc' = "open"
    /\ UNCHANGED <<stack, fs, dirs, ps_pc, ps, calls, tl>>

\* gdal.Open of the two inputs, N from the mean raster's metadata, the two
\* arrays and the magnitude of the stack's last band.  A missing N makes
\* GetMetadataItem return None and int(None) raise TypeError, which the
\* handler for KeyError does not catch.
update_open ==
    /\ upd_pc = "open"
    /\ LET found == GetMetadataItem(fs[upd.amp_mean_file], "N")
       IN IF found = {}
          THEN /\ upd' = [upd EXCEPT !.opened = TRUE, !.err = "TypeError"]
               /\ upd_pc' = "raised"
          ELSE /\ upd' = [upd EXCEPT
                            !.opened = TRUE,
                            !.N = CHOOSE v \in found : TRUE,
                            !.mean_n = fs[upd.amp_mean_file].px,
                            !.ampdisp = fs[upd.amp_dispersion_file].px,
                            !.new_amp = [p \in DOMAIN stack.px |->
                                            FAbs(stack.px[p][stack.bands])]]
               /\ upd_pc' = "create"
    /\ UNCHANGED <<stack, fs, dirs, ps_pc, ps, calls, tl>>

\* driver.CreateCopy(output_mean_file, ds_mean) and the same for the
\* dispersion: the outputs start as copies of the inputs, metadata included.
update_create ==
    /\ upd_pc = "create"
    /\ fs' = Stored(Stored(fs, upd.output_mean_file, fs[upd.amp_mean_file]),
                    upd.output_disp_file, fs[upd.amp_dispersion_file])
    /\ upd_pc' = "write"
    /\ UNCHANGED <<stack, dirs, ps_pc, ps, upd, calls, tl>>

\* The Welford step and the two WriteArray calls on the output bands.
update_write ==
    /\ upd_pc = "write"
    /\ LET var_n == [p \in DOMAIN upd.mean_n |-> VarN(upd.ampdisp[p], upd.mean_n[p])]
           mean_n1 == [p \in DOMAIN upd.mean_n |->
                         MeanN1(upd.mean_n[p], upd.new_amp[p], upd.N)]
           var_n1 == [p \in DOMAIN upd.mean_n |->
                         VarN1(var_n[p], upd.mean_n[p], mean_n1[p],
                               upd.new_amp[p], upd.N)]
           disp_n1 == [p \in DOMAIN upd.mean_n |-> DispN1(var_n1[p], mean_n1[p])]
       IN fs' = [fs EXCEPT ![upd.output_mean_file].px = mean_n1,
                           ![upd.output_disp_file].px = disp_n1]
    /\ upd_pc' = "setmd"
    /\ UNCHANGED <<stack, dirs, ps_pc, ps, upd, calls, tl>>

\* ds_ampdisp.SetMetadataItem("N", N + 1) and ds_mean.SetMetadataItem("N",
\* N + 1): both are the input datasets, opened GA_ReadOnly.  Whether the
\* raster library keeps an item set on a read-only dataset when it is closed
\* (in the file or in a sidecar read back at the next open) depends on the
\* format driver: both outcomes are followed.
update_set_metadata ==
    /\ upd_pc = "setmd"
    /\ \E kept \in BOOLEAN :
          fs' = IF kept
                THEN [fs EXCEPT
                        ![upd.amp_dispersion_file] = SetMetadataItem(@, "N", upd.N + 1),
                        ![upd.amp_mean_file] = SetMetadataItem(@, "N", upd.N + 1)]
                ELSE fs
    /\ upd_pc' = "returned"
    /\ UNCHANGED <<stack, dirs, ps_pc, ps, upd, calls, tl>>

(***************************************************************************)
(* take_looks (dolphin/utils.py)                                           *)
(***************************************************************************)
\* Element values of the arrays, func_type names and edge strategies a
\* caller may pass ("wrap" is not one of the two choices).
LookSamples == {NaN, Rat(1, 1), Rat(2, 1)}
FuncTypes == {"nansum", "nanmean"}
EdgeStrategies == {"cutoff", "pad", "wrap"}

\* A 2D array: its shape and its elements.
Array2D(rows, cols, el) == [ndim |-> 2, rows |-> rows, cols |-> cols, el |-> el]

\* The 2D arrays of at most max_dim rows and columns.
Arrays2D(max_dim) ==
    UNION {{Array2D(r, c, el) : el \in [(1..r) \X (1..c) -> LookSamples]} :
              r \in 1..max_dim, c \in 1..max_dim}

\* A 3D array: the sequence of its 2D arrays along the first axis (possibly
\* none; the arrays drawn repeat one 2D array).
Arrays3D(max_planes, max_dim) ==
    UNION {{[ndim |-> 3, planes |-> [k \in 1..n |-> a]] : a \in Arrays2D(max_dim)} :
              n \in 0..max_planes}

TlIdle == [pc |-> "idle"]

\* arr[:-row_cutoff, :] and arr[:, :-col_cutoff]; np.pad(arr, ((0, pad_rows),
\* (0, pad_cols)), constant_values=np.nan); ValueError for any other `how`.
make_dims_multiples(arr, row_looks, col_looks, how) ==
    LET row_cutoff == arr.rows % row_looks
        col_cutoff == arr.cols % col_looks
        pad_rows == (row_looks - row_cutoff) % row_looks
        pad_cols == (col_looks - col_cutoff) % col_looks
        cut == Array2D(arr.rows - row_cutoff, arr.cols - col_cutoff,
                       [x \in (1..(arr.rows - row_cutoff)) \X (1..(arr.cols - col_cutoff))
                           |-> arr.el[x]])
        padded == Array2D(arr.rows + pad_rows, arr.cols + pad_cols,
                       [x \in (1..(arr.rows + pad_rows)) \X (1..(arr.cols + pad_cols))
                           |-> IF x[1] <= arr.rows /\ x[2] <= arr.cols
                               THEN arr.el[x] ELSE NaN])
    IN CASE how = "cutoff" -> [err |-> "none", arr |-> cut]
         [] how = "pad" -> [err |-> "none", arr |-> padded]
         [] OTHER -> [err |-> "ValueError"]

\* The elements of the (i, j)-th window of row_looks x col_looks, in order.
Window(arr, row_looks, col_looks, i, j) ==
    [k \in 1..(row_looks * col_looks) |->
        arr.el[<<(i - 1) * row_looks + ((k - 1) \div col_looks) + 1,
                 (j - 1) * col_looks + ((k - 1) % col_looks) + 1>>]]

\* getattr(xp, func_type) applied to one window.
ApplyFunc(func_type, xs) ==
    IF func_type = "nansum" THEN SumValid(xs, Len(xs)) ELSE NanMean(xs)

\* func(xp.reshape(arr, (new_rows, row_looks, new_cols, col_looks)), axis=(3, 1))
Reduce(arr, row_looks, col_looks, func_type) ==
    LET new_rows == arr.rows \div row_looks
        new_cols == arr.cols \div col_looks
    IN Array2D(new_rows, new_cols,
               [x \in (1..new_rows) \X (1..new_cols) |->
                   ApplyFunc(func_type, Window(arr, row_looks, col_looks, x[1], x[2]))])

\* What a call of take_looks ends in: the array returned, or the error raised.
RECURSIVE take_looks_outcome(_, _, _, _, _)
take_looks_outcome(arr, row_looks, col_looks, func_type, edge_strategy) ==
    IF row_looks = 1 /\ col_looks = 1
    THEN [err |-> "none", arr |-> arr]
    ELSE IF arr.ndim >= 3
    THEN LET parts == [k \in DOMAIN arr.planes |->
                          take_looks_outcome(arr.planes[k], row_looks, col_looks,
                                             func_type, edge_strategy)]
         IN IF \E k \in DOMAIN parts : parts[k].err # "none"
            THEN [err |-> parts[CHOOSE k \in DOMAIN parts :
                                  /\ parts[k].err # "none"
                                  /\ \A q \in 1..(k - 1) : parts[q].err = "none"].err]
            ELSE IF Len(parts) = 0
            THEN \* xp.stack([]): need at least one array to stack
                 [err |-> "ValueError"]
            ELSE [err |-> "none",
                  arr |-> [ndim |-> 3, planes |-> [k \in DOMAIN parts |-> parts[k].arr]]]
    ELSE LET m == make_dims_multiples(arr, row_looks, col_looks, edge_strategy)
         IN IF m.err # "none" THEN m
            ELSE [err |-> "none", arr |-> Reduce(m.arr, row_looks, col_looks, func_type)]

take_looks(arr, row_looks, col_looks, func_type, edge_strategy) ==
    /\ tl.pc = "idle"
    /\ tl' = [pc |-> "done", arr |-> arr, row_looks |-> row_looks,
              col_looks |-> col_looks, func_type |-> func_type,
              edge_strategy |-> edge_strategy,
              outcome |-> take_looks_outcome(arr, row_looks, col_looks,
                                             func_type, edge_strategy)]
    /\ UNCHANGED <<stack, fs, dirs, ps_pc, ps, upd_pc, upd, calls>>

\* The summary rasters of the data model for the first n dates of a pixel:
\* population mean, and std / mean with 0 (the nodata value) for a zero mean.
BatchMean(series, n) == NanMean(Magnitude(SubSeq(series, 1, n)))

BatchDisp(series, n) ==
    LET mag == Magnitude(SubSeq(series, 1, n))
    IN IF IsZero(NanMean(mag)) THEN Zero ELSE FDiv(NanStd(mag), NanMean(mag))

\* update_amp_disp on summary rasters of the first UpdBands - 1 dates of a
\* stack whose last band is the new acquisition; N is stored or missing.
InitUpdate ==
    /\ stack \in Stacks(UpdRows, UpdBands, UpdSamples)
    /\ \E md \in {{}, {<<"N", UpdBands - 1>>}} :
          fs = Stored(Stored(NoFiles, AmpMeanFile,
                        [px |-> [p \in Pix(UpdRows) |->
                                    BatchMean(stack.px[p], UpdBands - 1)],
                         md |-> md]),
                      AmpDispFile,
                        [px |-> [p \in Pix(UpdRows) |->
                                    BatchDisp(stack.px[p], UpdBands - 1)],
                         md |-> md])
    /\ dirs = {"summary"}
    /\ ps_pc = "idle"
    /\ ps = PsIdle
    /\ upd_pc = "idle"
    /\ upd = UpdIdle
    /\ calls = 0
    /\ tl = TlIdle

NextUpdate ==
    \/ \E output_directory \in OutputDirs :
          update_amp_disp(AmpMeanFile, AmpDispFile, output_directory)
    \/ check_output_files
    \/ update_open
    \/ update_create
    \/ update_write
    \/ update_set_metadata

SpecUpdate == InitUpdate /\ [][NextUpdate]_vars

\* create_ps on a stack: the caller passes the paths in the documented order
\* (stack, mask, dispersion, mean), positionally.
InitCreatePs ==
    /\ stack \in Stacks(ImgRows, PsBands, Samples)
    /\ fs = NoFiles
    /\ dirs = {"work"}
    /\ ps_pc = "idle"
    /\ ps = PsIdle
    /\ upd_pc = "idle"
    /\ upd = UpdIdle
    /\ calls = 0
    /\ tl = TlIdle

NextCreatePs ==
    \/ \E threshold \in Thresholds, max_bytes \in MaxBytesSet :
          create_ps(CallerMaskPath, CallerDispPath, CallerMeanPath,
                    threshold, max_bytes)
    \/ create_ps_block

SpecCreatePs == InitCreatePs /\ [][NextCreatePs]_vars

(***************************************************************************)
(* Properties of update_amp_disp.                                          *)
(***************************************************************************)
OutN(path) == GetMetadataItem(fs[path], "N")

\* C1: after a successful call on summary rasters whose N is n, both output
\* rasters carry N = n + 1.
C1_OutputsCarryNPlusOne ==
    upd_pc = "returned" =>
        /\ OutN(upd.output_mean_file) = {upd.N + 1}
        /\ OutN(upd.output_disp_file) = {upd.N + 1}

\* C2: when a call has ended, by return or by an error, the pixel values and
\* the metadata of both input rasters are what they were when it was made.
C2_InputsUnchanged ==
    upd_pc \in {"returned", "raised"} =>
        /\ fs[AmpMeanFile] = upd.entry_fs[AmpMeanFile]
        /\ fs[AmpDispFile] = upd.entry_fs[AmpDispFile]

NoNaNIn(series) == \A t \in DOMAIN series : ~IsNaN(series[t])

\* C5: after a successful call on the batch mean and std/mean dispersion of
\* the first N amplitudes of a pixel, with the (N+1)-th as the stack's last
\* band, the outputs hold the population mean and std/mean of all N + 1
\* amplitudes, for every pixel whose amplitudes have a nonzero mean.
C5_WelfordMatchesBatch ==
    upd_pc = "returned" =>
        \A p \in Pix(UpdRows) :
            LET mag == Magnitude(stack.px[p])
            IN (NoNaNIn(stack.px[p]) /\ ~IsZero(NanMean(mag))) =>
                  /\ upd.N + 1 = stack.bands
                  /\ fs[upd.output_mean_file].px[p] = NanMean(mag)
                  /\ fs[upd.output_disp_file].px[p] = FDiv(NanStd(mag), NanMean(mag))

\* A successful update of a pixel whose first N amplitudes already vary and
\* whose new amplitude moves both the mean and the dispersion.
C5_Witness ==
    /\ upd_pc = "returned"
    /\ \E p \in Pix(UpdRows) :
          /\ NoNaNIn(stack.px[p])
          /\ ~IsZero(upd.ampdisp[p])
          /\ fs[upd.output_mean_file].px[p] # upd.mean_n[p]
          /\ fs[upd.output_disp_file].px[p] # upd.ampdisp[p]
          /\ ~IsZero(fs[upd.output_disp_file].px[p])

OutputExistedAtCall ==
    \/ upd.output_mean_file \in DOMAIN upd.entry_fs
    \/ upd.output_disp_file \in DOMAIN upd.entry_fs

\* C7: a call whose output path already exists ends in FileExistsError
\* without having opened an input and with every file as it was before the
\* call.
C7_ExistingOutputRefused ==
    (upd_pc \notin {"idle", "check"} /\ OutputExistedAtCall) =>
        /\ upd_pc = "raised"
        /\ upd.err = "FileExistsError"
        /\ ~upd.opened
        /\ fs = upd.entry_fs

\* The second call names the output directory the first call wrote to.
C7_Witness ==
    /\ calls = 2
    /\ upd_pc = "raised"
    /\ upd.err = "FileExistsError"
    /\ upd.output_directory = "updated"
    /\ OutN(upd.output_mean_file) # {}
    /\ fs[upd.output_mean_file].px # fs[AmpMeanFile].px

\* C8: a mean raster without N makes the call end in the ValueError "Cannot
\* find N in metadata of mean amplitude file", with no output file created.
C8_MissingNRaisesValueError ==
    (upd_pc = "raised" /\ upd.opened) =>
        /\ upd.err = "ValueError"
        /\ ~Exists(upd.output_mean_file)
        /\ ~Exists(upd.output_disp_file)

\* C16: after the outputs are written, a pixel whose stored mean and
\* dispersion are 0 and whose new amplitude is 0 has mean 0 and dispersion 0
\* in the outputs.
C16_NoDataPixelsStayDefined ==
    upd_pc \in {"setmd", "returned"} =>
        \A p \in Pix(UpdRows) :
            (IsZero(upd.mean_n[p]) /\ IsZero(upd.ampdisp[p]) /\ IsZero(upd.new_amp[p])) =>
                /\ IsZero(fs[upd.output_mean_file].px[p])
                /\ IsZero(fs[upd.output_disp_file].px[p])

(***************************************************************************)
(* Properties of create_ps.                                                *)
(***************************************************************************)
\* What the three output rasters hold at pixel p.
MeanAt(p) == fs[ps.amp_mean_file].px[p]
DispAt(p) == fs[ps.amp_dispersion_file].px[p]
MaskAt(p) == fs[ps.output_file].px[p]

\* The state of the tile pixel p lies in: "pending" until the loop reaches
\* it, then "skipped", "written" or "failed".
TileOf(p) == ((p[1] - 1) \div ps.block_shape[1]) + 1

TileState(p) ==
    IF ps_pc = "idle" \/ TileOf(p) > Len(ps.tiles) THEN "pending"
    ELSE ps.tiles[TileOf(p)]

AllZero(series) == \A t \in DOMAIN series : series[t] = Zero
AllNaN(series) == \A t \in DOMAIN series : IsNaN(series[t])

\* C3: after create_ps, every pixel whose whole time series is zero or NaN
\* has dispersion 0 and mask 255.
C3_NoDataPixelsGetSentinel ==
    ps_pc = "returned" =>
        \A p \in Pix(ImgRows) :
            (AllZero(stack.px[p]) \/ AllNaN(stack.px[p])) =>
                IsZero(DispAt(p)) /\ MaskAt(p) = SentinelByte

\* C4: in a written tile, a pixel with nonzero mean and nonzero spread has
\* dispersion std / mean (population std of its magnitudes over the bands).
C4_DispersionIsStdOverMean ==
    \A p \in Pix(ImgRows) :
        LET mag == Magnitude(stack.px[p])
        IN (TileState(p) = "written"
              /\ ~IsZero(NanMean(mag)) /\ ~IsZero(NanStd(mag))) =>
                 DispAt(p) = FDiv(NanStd(mag), NanMean(mag))

\* C6 as claimed: in a written tile, a pixel whose dispersion equals the
\* threshold has mask 0, and one whose nonzero dispersion is below the
\* threshold has mask 1.
C6_StrictThreshold_Original ==
    \A p \in Pix(ImgRows) :
        TileState(p) = "written" =>
            /\ DispAt(p) = ps.threshold => MaskAt(p) = 0
            /\ (~IsZero(DispAt(p)) /\ FLt(DispAt(p), ps.threshold)) => MaskAt(p) = 1

\* C6 as amended: in a written tile, a pixel whose nonzero dispersion equals
\* the threshold has mask 0, and one whose nonzero dispersion is below the
\* threshold has mask 1.
C6_StrictThreshold ==
    \A p \in Pix(ImgRows) :
        (TileState(p) = "written" /\ ~IsZero(DispAt(p))) =>
            /\ DispAt(p) = ps.threshold => MaskAt(p) = 0
            /\ FLt(DispAt(p), ps.threshold) => MaskAt(p) = 1

\* One written pixel sits exactly on the threshold, another one below it.
C6_Witness ==
    \E p, q \in Pix(ImgRows) :
        /\ TileState(p) = "written" /\ TileState(q) = "written"
        /\ ~IsZero(DispAt(p)) /\ DispAt(p) = ps.threshold /\ MaskAt(p) = 0
        /\ ~IsZero(DispAt(q)) /\ FLt(DispAt(q), ps.threshold) /\ MaskAt(q) = 1

\* C9: the three outputs at a pixel depend on that pixel's time series only:
\* any stack with the same series at the pixel, under any max_bytes, gives
\* the same mean, dispersion and mask there (both runs returning).
C9_PixelOutputsDependOnOwnSeriesOnly ==
    ps_pc = "returned" =>
        \A p \in Pix(ImgRows), max_bytes \in MaxBytesSet, other \in Stacks(ImgRows, PsBands, Samples) :
            other.px[p] = stack.px[p] =>
                LET r == create_ps_run(other, ps.threshold, max_bytes)
                IN r.pc = "returned" =>
                      /\ r.fs[r.ps.amp_mean_file].px[p] = MeanAt(p)
                      /\ r.fs[r.ps.amp_dispersion_file].px[p] = DispAt(p)
                      /\ r.fs[r.ps.output_file].px[p] = MaskAt(p)

ConstantNonzero(series) ==
    LET mag == Magnitude(series)
    IN /\ NoNaNIn(series)
       /\ ~IsZero(mag[1])
       /\ \A t \in DOMAIN mag : mag[t] = mag[1]

\* C10: when create_ps has ended, a pixel whose amplitudes are all the same
\* nonzero value has dispersion 0 and mask 1.
C10_ConstantPixelGetsMaskOne ==
    ps_pc \in {"returned", "raised"} =>
        \A p \in Pix(ImgRows) :
            ConstantNonzero(stack.px[p]) => IsZero(DispAt(p)) /\ MaskAt(p) = 1

PartialNaN(series) ==
    /\ \E t \in DOMAIN series : IsNaN(series[t])
    /\ \E t \in DOMAIN series : ~IsNaN(series[t])

ZeroFilled(series) ==
    [t \in DOMAIN series |-> IF IsNaN(series[t]) THEN Zero ELSE series[t]]

\* C11: in a written tile, a pixel whose series has NaN at some but not all
\* dates holds the mean and the dispersion that create_ps, run with the same
\* arguments, writes there for the stack in which that pixel's NaNs are 0.
C11_PartialNaNAsZeroFilled ==
    \A p \in Pix(ImgRows) :
        (TileState(p) = "written" /\ PartialNaN(stack.px[p])) =>
            LET other == [stack EXCEPT !.px[p] = ZeroFilled(@)]
                r == create_ps_run(other, ps.threshold, ps.max_bytes)
            IN /\ r.fs[r.ps.amp_mean_file].px[p] = MeanAt(p)
               /\ r.fs[r.ps.amp_dispersion_file].px[p] = DispAt(p)

\* A written pixel with one NaN date and one nonzero date: its mean counts
\* the NaN date as a zero sample, and its dispersion is not the cleaned 0.
C11_Witness ==
    \E p \in Pix(ImgRows) :
        /\ TileState(p) = "written"
        /\ PartialNaN(stack.px[p])
        /\ ~IsZero(MeanAt(p))
        /\ MeanAt(p) # NanMean(Magnitude_KeepNaN(stack.px[p]))
        /\ ~IsZero(DispAt(p))

\* C13: called positionally in the documented order (stack, mask, dispersion,
\* mean), create_ps writes a written tile's dispersion to the third path and
\* its mean to the fourth path.
C13_DispersionThirdMeanFourth ==
    \A p \in Pix(ImgRows) :
        TileState(p) = "written" =>
            /\ fs[CallerDispPath].px[p] = PixelAmpDisp(Magnitude(stack.px[p]))
            /\ fs[CallerMeanPath].px[p] = PixelMean(Magnitude(stack.px[p]))

\* C14: create_ps never raises, whatever the image and tile heights, and every
\* pixel of every non-skipped tile the loop has passed holds, in the three
\* rasters, the values of its own series (the tile's arrays have the tile's
\* shape and lie at the tile's offset); pixels of tiles not yet reached or
\* skipped keep the initial 0.
C14_EveryTileWrittenInPlace ==
    /\ ps_pc # "raised"
    /\ ps_pc \in {"loop", "returned"} =>
          \A p \in Pix(ImgRows) :
              LET mag == Magnitude(stack.px[p])
              IN IF TileState(p) = "written"
                 THEN /\ MeanAt(p) = PixelMean(mag)
                      /\ DispAt(p) = PixelAmpDisp(mag)
                      /\ MaskAt(p) = PixelPs(mag, ps.threshold)
                 ELSE /\ MeanAt(p) = Zero
                      /\ DispAt(p) = Zero
                      /\ MaskAt(p) = 0

(***************************************************************************)
(* create_ps followed by update_amp_disp.                                  *)
(***************************************************************************)
\* The pairs of summary rasters a caller may hand to update_amp_disp: the
\* existing ones, or the ones create_ps was asked to write.
SummaryPairs == {<<AmpMeanFile, AmpDispFile>>, <<CallerMeanPath, CallerDispPath>>}

\* Summary rasters exist (with or without N); create_ps has not run yet.
InitPipeline == InitUpdate

\* The calls are sequential.  create_ps is called with its output paths by
\* keyword; update_amp_disp is called on a pair of rasters that exist.
NextPipeline ==
    \/ \E max_bytes \in MaxBytesSet :
          /\ upd_pc \in {"idle", "returned", "raised"}
          /\ create_ps(CallerMaskPath, CallerMeanPath, CallerDispPath,
                       DefaultThreshold, max_bytes)
    \/ create_ps_block
    \/ \E pair \in SummaryPairs, output_directory \in OutputDirs :
          /\ ps_pc # "loop"
          /\ Exists(pair[1]) /\ Exists(pair[2])
          /\ update_amp_disp(pair[1], pair[2], output_directory)
    \/ check_output_files
    \/ update_open
    \/ update_create
    \/ update_write
    \/ update_set_metadata

SpecPipeline == InitPipeline /\ [][NextPipeline]_vars

\* C12: a call of update_amp_disp on the mean and dispersion rasters that a
\* completed create_ps wrote from a stack of T bands, with output paths that
\* are free, finds N = T and returns with both outputs carrying N = T + 1.
C12_CreatedSummariesCarryN ==
    ( /\ ps_pc = "returned"
      /\ upd.amp_mean_file = ps.amp_mean_file
      /\ upd.amp_dispersion_file = ps.amp_dispersion_file
      /\ ~OutputExistedAtCall
      /\ upd_pc \in {"returned", "raised"} ) =>
        /\ upd_pc = "returned"
        /\ upd.N = stack.bands
        /\ OutN(upd.output_mean_file) = {stack.bands + 1}
        /\ OutN(upd.output_disp_file) = {stack.bands + 1}

(***************************************************************************)
(* take_looks on its own.                                                  *)
(***************************************************************************)
InitTakeLooks ==
    /\ stack = [rows |-> 0, cols |-> 0, bands |-> 0, px |-> NoArray]
    /\ fs = NoFiles
    /\ dirs = {}
    /\ ps_pc = "idle"
    /\ ps = PsIdle
    /\ upd_pc = "idle"
    /\ upd = UpdIdle
    /\ calls = 0
    /\ tl = TlIdle

NextTakeLooks ==
    \E arr \in Arrays2D(LooksMaxDim) \cup Arrays3D(LooksMaxPlanes, LooksMaxDim), row_looks \in 1..MaxLooks, col_looks \in 1..MaxLooks, func_type \in FuncTypes, edge_strategy \in EdgeStrategies :
        take_looks(arr, row_looks, col_looks, func_type, edge_strategy)

SpecTakeLooks == InitTakeLooks /\ [][NextTakeLooks]_vars

\* C15: a call of take_looks with an edge strategy other than "cutoff" and
\* "pad" ends in ValueError, whatever the array and the looks, (1, 1) included.
C15_InvalidEdgeStrategyRaises ==
    (tl.pc = "done" /\ tl.edge_strategy \notin {"cutoff", "pad"}) =>
        tl.outcome.err = "ValueError"

=============================================================================
